---- MODULE Spec2Model ----
(***************************************************************************)
(* Model of pkg/stats/stats.go: the metrics adapter that offers "set" and  *)
(* "increment" instruments on top of a backend that only knows counters    *)
(* (Add) and pull-sampled gauge observers (Observe).                       *)
(*                                                                         *)
(* The instruments share no state, so each one has its own specification   *)
(* (SpecSetSeq, SpecSet, ...); Spec is their composition.                  *)
(***************************************************************************)
EXTENDS Integers, Sequences, FiniteSets, TLC

\* ------------------------------------------------------------------ bounds

\* Width in bits of the modelled int64: values live in -2^(IntBits-1) .. 2^(IntBits-1)-1
\* and arithmetic wraps as Go's int64 does.
IntBits == 2

\* Number of goroutines that call setCounter.Set concurrently.
NumCallers == 2

\* ------------------------------------------------------------------ values

RECURSIVE Pow2(_)
Pow2(n) == IF n = 0 THEN 1 ELSE 2 * Pow2(n - 1)

IntMod == Pow2(IntBits)
IntMin == 0 - (IntMod \div 2)
IntMax == (IntMod \div 2) - 1
Int64 == IntMin .. IntMax

\* Two's-complement wrap of a mathematical integer into the modelled int64.
Wrap(x) == ((x - IntMin) % IntMod) + IntMin

\* ------------------------------------------------------------------ labels

\* A label map (map[string]string) is a set of <<name, value>> pairs with
\* distinct names.
EmptyLabels == {}
StatusOk == {<<"status", "ok">>}
OpPushStatusOk == {<<"op", "push">>, <<"status", "ok">>}

\* The label maps callers pass in.
LabelSets == {EmptyLabels, StatusOk, OpPushStatusOk}

\* Every <<name, value>> pair that occurs, in a fixed enumeration.
LabelPairs == <<(<<"op", "push">>), (<<"status", "ok">>)>>

PairIndex(p) == CHOOSE i \in 1..Len(LabelPairs) : LabelPairs[i] = p

\* All orders in which `range decodedKey` may visit a map.
Iterations(m) ==
  {s \in [1..Cardinality(m) -> m] : \A i, j \in 1..Cardinality(m) : i # j => s[i] # s[j]}

\* transformLabels: one attribute.String(k, fmt.Sprint(v)) per entry, appended in
\* the map's iteration order, which Go leaves unspecified. fmt.Sprint of a string
\* is that string. The result is any of the possible slices.
transformLabels(decodedKey) == Iterations(decodedKey)

\* The attribute set the backend keys a data point by: the slice without its order.
AttrSet(labels) == {labels[i] : i \in 1..Len(labels)}

\* Bitwise exclusive or of two naturals.
RECURSIVE Xor(_, _)
Xor(a, b) ==
  IF a = 0 THEN b
  ELSE IF b = 0 THEN a
  ELSE ((a + b) % 2) + 2 * Xor(a \div 2, b \div 2)

\* The hash of one map entry (its key's and its value's hashes combined): each
\* pair owns one bit, so on the label maps of the model entries do not collide.
FieldHash(p) == Pow2(PairIndex(p))

hashUpdateUnordered_ordered(a, b) == 2 * a + b

\* hashstructure's combination of the entries of a map: exclusive or.
hashUpdateUnordered(a, b) == Xor(a, b)

\* hashstructure's visit of a map: the entries are taken in the order `keys` that
\* reflect's MapKeys returns them in, and folded into h from 0.
RECURSIVE HashVisit(_)
HashVisit(keys) ==
  IF keys = <<>> THEN 0
  ELSE hashUpdateUnordered(HashVisit(SubSeq(keys, 1, Len(keys) - 1)),
                           FieldHash(keys[Len(keys)]))

Hash_collide(keys) == 1

\* hashstructure.Hash(decodedKey, FormatV2, nil), for the order `keys` in which
\* this call visits decodedKey's entries; Go leaves that order unspecified.
Hash(keys) == 1 + HashVisit(keys)

\* The counterMap key of label map m, by one of the visiting orders.
LabelKey(m) == Hash(CHOOSE keys \in Iterations(m) : TRUE)

\* ---------------------------------------------------------------- variables

VARIABLES
  counterMap,   \* setCounter.counterMap: keyHash -> last value stored
  mapWriters,   \* callers inside the runtime's map assignment
  sent,         \* backend counter of the Set Instrument: attribute set -> sum of the deltas passed to Add
  fatal,        \* the runtime has thrown: the process is gone
  set,          \* per caller of setCounter.Set: position and locals
  lastSet,      \* history: label map -> value of the last Set call that returned
  gaugeVal,     \* *val of NewGauge
  gaugeLabels,  \* *labels of NewGauge
  lock,         \* observerLock: the writer holding or awaiting it, the readers holding it
  gw,           \* per caller of gauge.Set: position and locals
  gs,           \* per running sampling callback: position and locals
  gCalls,       \* history: number of gauge.Set calls made
  gCur,         \* history: the <<value, labels>> pair of the latest completed write
  gReplaced,    \* history: whether that write replaced a pair of another value and other labels
  gLast,        \* history: value and label map of the gauge.Set call that returned last
  incTotal,     \* backend counter of the Increment Instrument: attribute set -> total
  inc,          \* per caller of incrementCounter.Increment: position and locals
  incCalls,     \* history: label map -> number of Increment calls made
  prov,         \* NewPrometheusMetricsProvider: position, opts, what it did and returned
  busyPorts,    \* ports another process has bound
  ctxDone,      \* ctx is cancelled
  server,       \* the http.Server: inShutdown, whether its listener is open, Close calls
  serve,        \* the goroutine running server.ListenAndServe()
  shutdown      \* the goroutine running <-ctx.Done(); server.Close()

setVars == <<counterMap, mapWriters, sent, set, lastSet>>
gaugeVars == <<gaugeVal, gaugeLabels, lock, gw, gs, gCalls, gCur, gReplaced, gLast>>
incVars == <<incTotal, inc, incCalls>>
provVars == <<prov, busyPorts, ctxDone, server, serve, shutdown>>
vars == <<fatal, setVars, gaugeVars, incVars, provVars>>

\* What the steps of one instrument leave alone: the other instruments.
notSet == <<gaugeVars, incVars, provVars>>
notGauge == <<setVars, incVars, provVars>>
notInc == <<setVars, gaugeVars, provVars>>
notProv == <<setVars, gaugeVars, incVars>>

Callers == 1..NumCallers

\* counterMap[keyHash] of a Go map: the zero value when the key is absent.
MapGet(m, k) == IF k \in DOMAIN m THEN m[k] ELSE 0

MapPut(m, k, v) == [x \in DOMAIN m \cup {k} |-> IF x = k THEN v ELSE m[x]]

IdleCall ==
  [pc |-> "idle", intVal |-> 0, decodedKey |-> {}, labels |-> <<>>, keys |-> <<>>,
   keyHash |-> 0, oldVal |-> 0, diff |-> 0,
   \* history of the call, for the properties only
   nAdd |-> 0, nStore |-> 0]

InitSet ==
  /\ counterMap = [k \in {} |-> 0]
  /\ mapWriters = {}
  /\ sent = [a \in LabelSets |-> 0]
  /\ set = [c \in Callers |-> IdleCall]
  /\ lastSet = [m \in {} |-> 0]

\* The label maps concurrent callers of Set contend on.
ContendedLabelSets == {OpPushStatusOk}


\* ------------------------------------------------------------ Gauge Instrument

\* Number of goroutines that call gauge.Set, and of sampling callbacks the
\* backend may run at once.
NumGaugeCallers == 2
NumSamplers == 1

\* Number of gauge.Set calls in a run.
MaxGaugeSets == 2

GaugeCallers == 1..NumGaugeCallers
Samplers == 1..NumSamplers

\* The values callers set a gauge to.
GaugeValues == {0, 1}

IdleGaugeCall ==
  [pc |-> "idle", intVal |-> 0, decodedKey |-> {}, labels |-> <<>>]

IdleSampler ==
  [pc |-> "idle", value |-> 0, labels |-> <<>>,
   \* history: the pairs that were the gauge's at some moment between the
   \* callback's RLock and its reads, and whether no Set was in progress since
   \* the callback began
   \* the callback began, and whether a Set wrote since the callback began
   current |-> {}, quiet |-> FALSE, overlap |-> FALSE]

\* NewGauge: val := new(int64); labels := new([]attribute.KeyValue);
\* observerLock := &sync.RWMutex{}.
InitGauge_one ==
  /\ gaugeVal = 1
  /\ gaugeLabels = <<>>
  /\ lock = [writer |-> 0, readers |-> {}]
  /\ gw = [w \in GaugeCallers |-> IdleGaugeCall]
  /\ gs = [s \in Samplers |-> IdleSampler]
  /\ gCalls = 0
  /\ gCur = <<0, <<>>>>
  /\ gReplaced = FALSE
  /\ gLast = [intVal |-> 0, decodedKey |-> {}]

InitGauge ==
  /\ gaugeVal = 0
  /\ gaugeLabels = <<>>
  /\ lock = [writer |-> 0, readers |-> {}]
  /\ gw = [w \in GaugeCallers |-> IdleGaugeCall]
  /\ gs = [s \in Samplers |-> IdleSampler]
  /\ gCalls = 0
  /\ gCur = <<0, <<>>>>
  /\ gReplaced = FALSE
  /\ gLast = [intVal |-> 0, decodedKey |-> {}]

\* -------------------------------------------------------- Increment Instrument

\* Number of goroutines that call Increment, and of Increment calls in a run.
NumIncCallers == 2
MaxIncrements == 3

IncCallers == 1..NumIncCallers

IdleIncrement == [pc |-> "idle", decodedKey |-> {}, labels |-> <<>>]

\* NewIncrementCounter: a fresh backend counter.
InitInc ==
  /\ incTotal = [a \in LabelSets |-> 0]
  /\ inc = [i \in IncCallers |-> IdleIncrement]
  /\ incCalls = [m \in LabelSets |-> 0]

\* --------------------------------------------------------------------- Provider

\* initDefaults
DefaultPort == 9091
DefaultMetricsPath == "/metrics"

\* The opts callers pass: zero values and values of their own.
OptPorts == {0, 8080}
OptPaths == {"", "/stats"}

NoOpts == [Port |-> 0, MetricsPath |-> ""]

initDefaults_portOnly(opts) ==
  [Port |-> IF opts.Port = 0 THEN DefaultPort ELSE opts.Port,
   MetricsPath |-> opts.MetricsPath]

\* PrometheusOpts.initDefaults
initDefaults(opts) ==
  [Port |-> IF opts.Port = 0 THEN DefaultPort ELSE opts.Port,
   MetricsPath |-> IF opts.MetricsPath = "" THEN DefaultMetricsPath ELSE opts.MetricsPath]

\* The ports another process may hold.
Ports == {DefaultPort} \cup (OptPorts \ {0})

InitProvider ==
  /\ prov = [pc |-> "idle", opts |-> NoOpts, result |-> "none", global |-> FALSE,
             \* the options as the caller supplied them, for the properties only
             given |-> NoOpts]
  /\ busyPorts = {}
  /\ ctxDone = FALSE
  /\ server = [Addr |-> 0, route |-> "", inShutdown |-> FALSE, listener |-> "none",
               tracked |-> FALSE, closes |-> 0]
  /\ serve = [pc |-> "none", err |-> "none"]
  /\ shutdown = [pc |-> "none"]

Init ==
  /\ fatal = FALSE
  /\ InitSet
  /\ InitGauge
  /\ InitInc
  /\ InitProvider

\* diff := intVal - oldVal, in int64.
Diff_absolute(intVal, oldVal) == intVal

Diff(intVal, oldVal) == Wrap(intVal - oldVal)

\* if oldVal == intVal { return }
Unchanged_never(oldVal, intVal) == FALSE

Unchanged(oldVal, intVal) == oldVal = intVal

\* Set is entered: labels := transformLabels(decodedKey); keyHash := Hash(decodedKey),
\* each ranging over the map in an order of its own.
SetCall(c, intVal, decodedKey) ==
  /\ ~fatal
  /\ set[c].pc = "idle"
  /\ \E labels \in transformLabels(decodedKey), keys \in Iterations(decodedKey) :
       set' = [set EXCEPT ![c] =
                 [IdleCall EXCEPT !.pc = "load", !.intVal = intVal,
                                  !.decodedKey = decodedKey, !.labels = labels,
                                  !.keys = keys, !.keyHash = Hash(keys)]]
  /\ UNCHANGED <<counterMap, mapWriters, sent, fatal, lastSet, notSet>>

\* oldVal := c.counterMap[keyHash]; diff := intVal - oldVal; return when equal.
SetLoad(c) ==
  /\ ~fatal
  /\ set[c].pc = "load"
  /\ LET oldVal == MapGet(counterMap, set[c].keyHash)
     IN  set' = [set EXCEPT ![c].oldVal = oldVal,
                            ![c].diff = Diff(set[c].intVal, oldVal),
                            ![c].pc = IF Unchanged(oldVal, set[c].intVal)
                                      THEN "done" ELSE "store"]
  /\ UNCHANGED <<counterMap, mapWriters, sent, fatal, lastSet, notSet>>

\* c.counterMap[keyHash] = intVal: the runtime's map assignment starts ...
SetStoreBegin(c) ==
  /\ ~fatal
  /\ set[c].pc = "store"
  /\ mapWriters' = mapWriters \cup {c}
  /\ set' = [set EXCEPT ![c].pc = "storing"]
  /\ UNCHANGED <<counterMap, sent, fatal, lastSet, notSet>>

SetStoreEnd_notWritten(c) ==
  /\ ~fatal
  /\ set[c].pc = "storing"
  /\ mapWriters' = mapWriters \ {c}
  /\ set' = [set EXCEPT ![c].pc = "add", ![c].nStore = @ + 1]
  /\ UNCHANGED <<counterMap, sent, fatal, lastSet, notSet>>

\* ... and ends with the entry written.
SetStoreEnd(c) ==
  /\ ~fatal
  /\ set[c].pc = "storing"
  /\ counterMap' = MapPut(counterMap, set[c].keyHash, set[c].intVal)
  /\ mapWriters' = mapWriters \ {c}
  /\ set' = [set EXCEPT ![c].pc = "add", ![c].nStore = @ + 1]
  /\ UNCHANGED <<sent, fatal, lastSet, notSet>>

\* c.counter.Add(ctx, int64(diff), labels...)
SetAdd(c) ==
  /\ ~fatal
  /\ set[c].pc = "add"
  /\ sent' = [sent EXCEPT ![AttrSet(set[c].labels)] = Wrap(@ + set[c].diff)]
  /\ set' = [set EXCEPT ![c].pc = "done", ![c].nAdd = @ + 1]
  /\ UNCHANGED <<counterMap, mapWriters, fatal, lastSet, notSet>>

\* Set returns.
SetReturn(c) ==
  /\ ~fatal
  /\ set[c].pc = "done"
  /\ lastSet' = MapPut(lastSet, set[c].decodedKey, set[c].intVal)
  /\ set' = [set EXCEPT ![c] = IdleCall]
  /\ UNCHANGED <<counterMap, mapWriters, sent, fatal, notSet>>

\* The map is read while another goroutine is inside an assignment to it: a data
\* race. The runtime may throw "concurrent map read and map write" (this action)
\* or not notice (SetLoad).
SetLoadRace(c) ==
  /\ ~fatal
  /\ set[c].pc = "load"
  /\ mapWriters \ {c} # {}
  /\ fatal' = TRUE
  /\ UNCHANGED <<counterMap, mapWriters, sent, set, lastSet, notSet>>

\* Two goroutines assign to the map at once: the runtime may throw "concurrent
\* map writes" (this action) or not notice (SetStoreBegin).
SetStoreRace(c) ==
  /\ ~fatal
  /\ set[c].pc = "store"
  /\ mapWriters \ {c} # {}
  /\ fatal' = TRUE
  /\ UNCHANGED <<counterMap, mapWriters, sent, set, lastSet, notSet>>

SetStep(c, labelSets) ==
  \/ \E intVal \in Int64, decodedKey \in labelSets : SetCall(c, intVal, decodedKey)
  \/ SetLoad(c)
  \/ SetStoreBegin(c)
  \/ SetStoreEnd(c)
  \/ SetAdd(c)
  \/ SetReturn(c)

\* One goroutine uses the Set Instrument.
NextSetSeq == SetStep(1, LabelSets)

SpecSetSeq == Init /\ [][NextSetSeq]_vars

\* Set is entered and hashstructure.Hash returns an error. No label map is known
\* to make it do so; this is the branch the code keeps for it.
SetHashFails(c, intVal, decodedKey) ==
  /\ ~fatal
  /\ set[c].pc = "idle"
  /\ \E labels \in transformLabels(decodedKey) :
       set' = [set EXCEPT ![c] =
                 [IdleCall EXCEPT !.pc = "hashErr", !.intVal = intVal,
                                  !.decodedKey = decodedKey, !.labels = labels]]
  /\ UNCHANGED <<counterMap, mapWriters, sent, fatal, lastSet, notSet>>

\* log.Fatal("This should never happen"): the message is logged and os.Exit(1)
\* ends the process.
SetLogFatal(c) ==
  /\ ~fatal
  /\ set[c].pc = "hashErr"
  /\ fatal' = TRUE
  /\ UNCHANGED <<counterMap, mapWriters, sent, set, lastSet, notSet>>

\* One goroutine uses the Set Instrument and the hashing primitive may fail.
NextSetHash ==
  \/ NextSetSeq
  \/ \E intVal \in Int64, decodedKey \in LabelSets : SetHashFails(1, intVal, decodedKey)
  \/ SetLogFatal(1)

SpecSetHash == Init /\ [][NextSetHash]_vars

\* Several goroutines use the Set Instrument; nothing in setCounter orders them.
NextSet == \E c \in Callers : SetStep(c, ContendedLabelSets) \/ SetLoadRace(c) \/ SetStoreRace(c)

SpecSet == Init /\ [][NextSet]_vars

\* ---------------------------------------------------- Gauge Instrument: steps

\* gauge.Set is entered: labels := transformLabels(decodedKey).
GaugeSetCall(w, intVal, decodedKey) ==
  /\ ~fatal
  /\ gw[w].pc = "idle"
  /\ gCalls < MaxGaugeSets
  /\ gCalls' = gCalls + 1
  /\ \E labels \in transformLabels(decodedKey) :
       gw' = [gw EXCEPT ![w] = [IdleGaugeCall EXCEPT !.pc = "lock", !.intVal = intVal,
                                  !.decodedKey = decodedKey, !.labels = labels]]
  /\ gs' = [s \in Samplers |-> [gs[s] EXCEPT !.quiet = FALSE]]
  /\ UNCHANGED <<gaugeVal, gaugeLabels, lock, gCur, gReplaced, gLast, fatal, notGauge>>

GaugeLock(w) ==
  /\ ~fatal
  /\ gw[w].pc = "lock"
  /\ lock.writer = 0
  /\ lock' = [lock EXCEPT !.writer = w]
  /\ gw' = [gw EXCEPT ![w].pc = "wait"]
  /\ UNCHANGED <<gaugeVal, gaugeLabels, gs, gCalls, gCur, gReplaced, gLast, fatal, notGauge>>

\* (*g.lock).Lock(), second half: the writer waits until the readers have left.
GaugeLocked_noWait(w) ==
  /\ ~fatal
  /\ gw[w].pc = "wait"
  /\ gw' = [gw EXCEPT ![w].pc = "labels"]
  /\ UNCHANGED <<gaugeVal, gaugeLabels, lock, gs, gCalls, gCur, gReplaced, gLast, fatal, notGauge>>

GaugeLocked(w) ==
  /\ ~fatal
  /\ gw[w].pc = "wait"
  /\ lock.readers = {}
  /\ gw' = [gw EXCEPT ![w].pc = "labels"]
  /\ UNCHANGED <<gaugeVal, gaugeLabels, lock, gs, gCalls, gCur, gReplaced, gLast, fatal, notGauge>>

\* *g.labels = labels
GaugeStoreLabels_skip(w) ==
  /\ ~fatal
  /\ gw[w].pc = "labels"
  /\ gw' = [gw EXCEPT ![w].pc = "val"]
  /\ UNCHANGED <<gaugeVal, gaugeLabels, lock, gs, gCalls, gCur, gReplaced, gLast, fatal, notGauge>>

GaugeStoreLabels(w) ==
  /\ ~fatal
  /\ gw[w].pc = "labels"
  /\ gaugeLabels' = gw[w].labels
  /\ gw' = [gw EXCEPT ![w].pc = "val"]
  /\ UNCHANGED <<gaugeVal, lock, gs, gCalls, gCur, gReplaced, gLast, fatal, notGauge>>

\* *g.val = intVal
GaugeStoreVal(w) ==
  /\ ~fatal
  /\ gw[w].pc = "val"
  /\ gaugeVal' = gw[w].intVal
  /\ gCur' = <<gw[w].intVal, gw[w].labels>>
  /\ gReplaced' = (gCur[1] # gw[w].intVal /\ AttrSet(gCur[2]) # gw[w].decodedKey)
  /\ gs' = [s \in Samplers |->
             IF gs[s].pc \in {"val", "labels"}
             THEN [gs[s] EXCEPT !.current = @ \cup {gCur'}, !.overlap = TRUE]
             ELSE IF gs[s].pc = "rlock"
             THEN [gs[s] EXCEPT !.overlap = TRUE]
             ELSE gs[s]]
  /\ gw' = [gw EXCEPT ![w].pc = "unlock"]
  /\ UNCHANGED <<gaugeLabels, lock, gCalls, gLast, fatal, notGauge>>

GaugeUnlock_held(w) ==
  /\ ~fatal
  /\ gw[w].pc = "unlock"
  /\ gLast' = [intVal |-> gw[w].intVal, decodedKey |-> gw[w].decodedKey]
  /\ gw' = [gw EXCEPT ![w] = IdleGaugeCall]
  /\ UNCHANGED <<gaugeVal, gaugeLabels, lock, gs, gCalls, gCur, gReplaced, fatal, notGauge>>

\* The deferred (*g.lock).Unlock() runs as Set returns.
GaugeUnlock(w) ==
  /\ ~fatal
  /\ gw[w].pc = "unlock"
  /\ lock' = [lock EXCEPT !.writer = 0]
  /\ gLast' = [intVal |-> gw[w].intVal, decodedKey |-> gw[w].decodedKey]
  /\ gw' = [gw EXCEPT ![w] = IdleGaugeCall]
  /\ UNCHANGED <<gaugeVal, gaugeLabels, gs, gCalls, gCur, gReplaced, fatal, notGauge>>

\* The backend invokes the callback registered with NewInt64GaugeObserver.
ObserverCall(s) ==
  /\ ~fatal
  /\ gs[s].pc = "idle"
  /\ gs' = [gs EXCEPT ![s] = [IdleSampler EXCEPT !.pc = "rlock", 
                                !.quiet = \A w \in GaugeCallers : gw[w].pc = "idle"]]
  /\ UNCHANGED <<gaugeVal, gaugeLabels, lock, gw, gCalls, gCur, gReplaced, gLast, fatal, notGauge>>

\* (*observerLock).RLock(): blocks while a writer holds or awaits the lock.
ObserverRLock_unguarded(s) ==
  /\ ~fatal
  /\ gs[s].pc = "rlock"
  /\ lock' = [lock EXCEPT !.readers = @ \cup {s}]
  /\ gs' = [gs EXCEPT ![s].pc = "val", ![s].current = {gCur}]
  /\ UNCHANGED <<gaugeVal, gaugeLabels, gw, gCalls, gCur, gReplaced, gLast, fatal, notGauge>>

ObserverRLock(s) ==
  /\ ~fatal
  /\ gs[s].pc = "rlock"
  /\ lock.writer = 0
  /\ lock' = [lock EXCEPT !.readers = @ \cup {s}]
  /\ gs' = [gs EXCEPT ![s].pc = "val", ![s].current = {gCur}]
  /\ UNCHANGED <<gaugeVal, gaugeLabels, gw, gCalls, gCur, gReplaced, gLast, fatal, notGauge>>

\* value := *val
ObserverLoadVal(s) ==
  /\ ~fatal
  /\ gs[s].pc = "val"
  /\ gs' = [gs EXCEPT ![s].value = gaugeVal, ![s].pc = "labels"]
  /\ UNCHANGED <<gaugeVal, gaugeLabels, lock, gw, gCalls, gCur, gReplaced, gLast, fatal, notGauge>>

\* labels := *labels
ObserverLoadLabels(s) ==
  /\ ~fatal
  /\ gs[s].pc = "labels"
  /\ gs' = [gs EXCEPT ![s].labels = gaugeLabels, ![s].pc = "runlock"]
  /\ UNCHANGED <<gaugeVal, gaugeLabels, lock, gw, gCalls, gCur, gReplaced, gLast, fatal, notGauge>>

\* (*observerLock).RUnlock()
ObserverRUnlock(s) ==
  /\ ~fatal
  /\ gs[s].pc = "runlock"
  /\ lock' = [lock EXCEPT !.readers = @ \ {s}]
  /\ gs' = [gs EXCEPT ![s].pc = "observe"]
  /\ UNCHANGED <<gaugeVal, gaugeLabels, gw, gCalls, gCur, gReplaced, gLast, fatal, notGauge>>

\* ior.Observe(value, labels...): the pair read is reported, and the callback
\* returns.
ObserverObserve(s) ==
  /\ ~fatal
  /\ gs[s].pc = "observe"
  /\ gs' = [gs EXCEPT ![s] = IdleSampler]
  /\ UNCHANGED <<gaugeVal, gaugeLabels, lock, gw, gCalls, gCur, gReplaced, gLast, fatal, notGauge>>

GaugeStep(w) ==
  \/ \E intVal \in GaugeValues, decodedKey \in LabelSets : GaugeSetCall(w, intVal, decodedKey)
  \/ GaugeLock(w)
  \/ GaugeLocked(w)
  \/ GaugeStoreLabels(w)
  \/ GaugeStoreVal(w)
  \/ GaugeUnlock(w)

ObserverStep(s) ==
  \/ ObserverCall(s)
  \/ ObserverRLock(s)
  \/ ObserverLoadVal(s)
  \/ ObserverLoadLabels(s)
  \/ ObserverRUnlock(s)
  \/ ObserverObserve(s)

NextGauge ==
  \/ \E w \in GaugeCallers : GaugeStep(w)
  \/ \E s \in Samplers : ObserverStep(s)

SpecGauge == Init /\ [][NextGauge]_vars

\* The Go scheduler runs every runnable goroutine, and sync.RWMutex hands the
\* lock to a goroutine that keeps waiting for it (a blocked Lock bars new
\* readers, Unlock wakes the blocked readers first, a starved waiter is handed
\* the mutex directly): weak fairness for the steps of a call, strong fairness
\* for its lock acquisition. Whether Set or the callback is called at all is
\* left to the callers.
FairGauge ==
  /\ \A w \in GaugeCallers :
       /\ SF_vars(GaugeLock(w))
       /\ WF_vars(GaugeLocked(w) \/ GaugeStoreLabels(w) \/ GaugeStoreVal(w) \/ GaugeUnlock(w))
  /\ \A s \in Samplers :
       /\ SF_vars(ObserverRLock(s))
       /\ WF_vars(ObserverLoadVal(s) \/ ObserverLoadLabels(s) \/ ObserverRUnlock(s)
                    \/ ObserverObserve(s))

SpecGaugeLive == SpecGauge /\ FairGauge

\* ------------------------------------------------- Increment Instrument: steps

\* Increment is entered: labels := transformLabels(decodedKey).
IncrementCall(i, decodedKey) ==
  /\ ~fatal
  /\ inc[i].pc = "idle"
  /\ incCalls[EmptyLabels] + incCalls[StatusOk] + incCalls[OpPushStatusOk] < MaxIncrements
  /\ incCalls' = [incCalls EXCEPT ![decodedKey] = @ + 1]
  /\ \E labels \in transformLabels(decodedKey) :
       inc' = [inc EXCEPT ![i] = [pc |-> "add", decodedKey |-> decodedKey, labels |-> labels]]
  /\ UNCHANGED <<incTotal, fatal, notInc>>

\* i.counter.Add(ctx, 1, labels...), and Increment returns.
IncrementAdd_unlabelled(i) ==
  /\ ~fatal
  /\ inc[i].pc = "add"
  /\ incTotal' = [incTotal EXCEPT ![EmptyLabels] = @ + 1]
  /\ inc' = [inc EXCEPT ![i] = IdleIncrement]
  /\ UNCHANGED <<incCalls, fatal, notInc>>

IncrementAdd(i) ==
  /\ ~fatal
  /\ inc[i].pc = "add"
  /\ incTotal' = [incTotal EXCEPT ![AttrSet(inc[i].labels)] = @ + 1]
  /\ inc' = [inc EXCEPT ![i] = IdleIncrement]
  /\ UNCHANGED <<incCalls, fatal, notInc>>

NextInc ==
  \E i \in IncCallers :
    \/ \E decodedKey \in LabelSets : IncrementCall(i, decodedKey)
    \/ IncrementAdd(i)

SpecInc == Init /\ [][NextInc]_vars

\* -------------------------------------------------------------- Provider: steps

\* NewPrometheusMetricsProvider is entered: opts.initDefaults(), config, controller.
ProviderCall(opts, busy) ==
  /\ ~fatal
  /\ prov.pc = "idle"
  /\ prov' = [prov EXCEPT !.pc = "exporter", !.opts = initDefaults(opts), !.given = opts]
  /\ busyPorts' = busy
  /\ UNCHANGED <<ctxDone, server, serve, shutdown, fatal, notProv>>

ProviderExporterFails_installed ==
  /\ ~fatal
  /\ prov.pc = "exporter"
  /\ prov' = [prov EXCEPT !.pc = "returned", !.result = "error", !.global = TRUE]
  /\ UNCHANGED <<busyPorts, ctxDone, server, serve, shutdown, fatal, notProv>>

\* prometheus.New fails: return nil, fmt.Errorf(...).
ProviderExporterFails ==
  /\ ~fatal
  /\ prov.pc = "exporter"
  /\ prov' = [prov EXCEPT !.pc = "returned", !.result = "error"]
  /\ UNCHANGED <<busyPorts, ctxDone, server, serve, shutdown, fatal, notProv>>

\* prometheus.New succeeds: global.SetMeterProvider, the meter, the mux with
\* opts.MetricsPath routed to the exporter, and the server on ":<opts.Port>".
ProviderInstall ==
  /\ ~fatal
  /\ prov.pc = "exporter"
  /\ prov' = [prov EXCEPT !.pc = "goServe", !.global = TRUE]
  /\ server' = [server EXCEPT !.Addr = prov.opts.Port, !.route = prov.opts.MetricsPath]
  /\ UNCHANGED <<busyPorts, ctxDone, serve, shutdown, fatal, notProv>>

\* go func() { _ = server.ListenAndServe() }()
ProviderGoServe ==
  /\ ~fatal
  /\ prov.pc = "goServe"
  /\ prov' = [prov EXCEPT !.pc = "goShutdown"]
  /\ serve' = [serve EXCEPT !.pc = "start"]
  /\ UNCHANGED <<busyPorts, ctxDone, server, shutdown, fatal, notProv>>

\* go func() { <-ctx.Done(); server.Close() }()
ProviderGoShutdown ==
  /\ ~fatal
  /\ prov.pc = "goShutdown"
  /\ prov' = [prov EXCEPT !.pc = "return"]
  /\ shutdown' = [shutdown EXCEPT !.pc = "waiting"]
  /\ UNCHANGED <<busyPorts, ctxDone, server, serve, fatal, notProv>>

\* return &metricsProvider{meter: meter}, nil
ProviderReturn ==
  /\ ~fatal
  /\ prov.pc = "return"
  /\ prov' = [prov EXCEPT !.pc = "returned", !.result = "ok"]
  /\ UNCHANGED <<busyPorts, ctxDone, server, serve, shutdown, fatal, notProv>>

\* ListenAndServe on a server that is already shutting down: ErrServerClosed.
ServeRefused ==
  /\ ~fatal
  /\ serve.pc = "start"
  /\ server.inShutdown
  /\ serve' = [pc |-> "returned", err |-> "closed"]
  /\ UNCHANGED <<prov, busyPorts, ctxDone, server, shutdown, fatal, notProv>>

\* ListenAndServe goes on to net.Listen.
ServeStart ==
  /\ ~fatal
  /\ serve.pc = "start"
  /\ ~server.inShutdown
  /\ serve' = [serve EXCEPT !.pc = "listen"]
  /\ UNCHANGED <<prov, busyPorts, ctxDone, server, shutdown, fatal, notProv>>

\* net.Listen fails, the port being bound; the goroutine drops the error.
ServeListenFails ==
  /\ ~fatal
  /\ serve.pc = "listen"
  /\ server.Addr \in busyPorts
  /\ serve' = [pc |-> "returned", err |-> "bind"]
  /\ UNCHANGED <<prov, busyPorts, ctxDone, server, shutdown, fatal, notProv>>

\* net.Listen binds the port.
ServeListen ==
  /\ ~fatal
  /\ serve.pc = "listen"
  /\ server.Addr \notin busyPorts
  /\ server' = [server EXCEPT !.listener = "open"]
  /\ serve' = [serve EXCEPT !.pc = "track"]
  /\ UNCHANGED <<prov, busyPorts, ctxDone, shutdown, fatal, notProv>>

ServeAccept_unchecked ==
  /\ ~fatal
  /\ serve.pc = "track"
  /\ server' = [server EXCEPT !.tracked = TRUE]
  /\ serve' = [serve EXCEPT !.pc = "serving"]
  /\ UNCHANGED <<prov, busyPorts, ctxDone, shutdown, fatal, notProv>>

\* Serve registers the listener and starts accepting.
ServeAccept ==
  /\ ~fatal
  /\ serve.pc = "track"
  /\ ~server.inShutdown
  /\ server' = [server EXCEPT !.tracked = TRUE]
  /\ serve' = [serve EXCEPT !.pc = "serving"]
  /\ UNCHANGED <<prov, busyPorts, ctxDone, shutdown, fatal, notProv>>

\* Serve finds the server shutting down: it closes its listener and returns
\* ErrServerClosed.
ServeTrackRefused ==
  /\ ~fatal
  /\ serve.pc = "track"
  /\ server.inShutdown
  /\ server' = [server EXCEPT !.listener = "closed"]
  /\ serve' = [pc |-> "returned", err |-> "closed"]
  /\ UNCHANGED <<prov, busyPorts, ctxDone, shutdown, fatal, notProv>>

\* The listener was closed under Serve: it returns ErrServerClosed.
ServeStopped ==
  /\ ~fatal
  /\ serve.pc = "serving"
  /\ server.listener = "closed"
  /\ serve' = [pc |-> "returned", err |-> "closed"]
  /\ UNCHANGED <<prov, busyPorts, ctxDone, server, shutdown, fatal, notProv>>

\* The caller's context is cancelled.
Cancel ==
  /\ ~fatal
  /\ ~ctxDone
  /\ ctxDone' = TRUE
  /\ UNCHANGED <<prov, busyPorts, server, serve, shutdown, fatal, notProv>>

ShutdownWake_eager ==
  /\ ~fatal
  /\ shutdown.pc = "waiting"
  /\ shutdown' = [shutdown EXCEPT !.pc = "close"]
  /\ UNCHANGED <<prov, busyPorts, ctxDone, server, serve, fatal, notProv>>

\* <-ctx.Done() returns.
ShutdownWake ==
  /\ ~fatal
  /\ shutdown.pc = "waiting"
  /\ ctxDone
  /\ shutdown' = [shutdown EXCEPT !.pc = "close"]
  /\ UNCHANGED <<prov, busyPorts, ctxDone, server, serve, fatal, notProv>>

\* server.Close(): the server is shutting down from now on and the listeners
\* it has registered are closed.
ShutdownClose ==
  /\ ~fatal
  /\ shutdown.pc = "close"
  /\ server' = [server EXCEPT !.inShutdown = TRUE,
                               !.listener = IF server.tracked THEN "closed" ELSE @,
                               !.closes = @ + 1]
  /\ shutdown' = [shutdown EXCEPT !.pc = "done"]
  /\ UNCHANGED <<prov, busyPorts, ctxDone, serve, fatal, notProv>>

NextProvider ==
  \/ \E Port \in OptPorts, MetricsPath \in OptPaths, busy \in SUBSET Ports :
       ProviderCall([Port |-> Port, MetricsPath |-> MetricsPath], busy)
  \/ ProviderExporterFails
  \/ ProviderInstall
  \/ ProviderGoServe
  \/ ProviderGoShutdown
  \/ ProviderReturn
  \/ ServeRefused
  \/ ServeStart
  \/ ServeListenFails
  \/ ServeListen
  \/ ServeAccept
  \/ ServeTrackRefused
  \/ ServeStopped
  \/ Cancel
  \/ ShutdownWake
  \/ ShutdownClose

SpecProvider == Init /\ [][NextProvider]_vars

\* The Go scheduler runs every runnable goroutine: the constructor, the serving
\* goroutine and the shutdown goroutine each go on while they can. Calling the
\* constructor and cancelling the context are left to the caller.
FairProvider ==
  /\ WF_vars(ProviderExporterFails \/ ProviderInstall \/ ProviderGoServe
               \/ ProviderGoShutdown \/ ProviderReturn)
  /\ WF_vars(ServeRefused \/ ServeStart \/ ServeListenFails \/ ServeListen
               \/ ServeAccept \/ ServeTrackRefused \/ ServeStopped)
  /\ WF_vars(ShutdownWake \/ ShutdownClose)

SpecProviderLive == SpecProvider /\ FairProvider

\* The whole program: every instrument and the provider.
Next ==
  \/ NextSet
  \/ NextGauge
  \/ NextInc
  \/ NextProvider

Spec == Init /\ [][Next]_vars

\* ------------------------------------------------- properties: Set Instrument

\* The caller of the single-caller specification.
TheCaller == set[1]

\* C1: with a single caller, whenever a Set call has completed, the sum (in
\* int64) of the deltas passed to Add for its label set equals the value just
\* set, and so does counterMap[keyHash]; between calls this holds of every
\* label set ever set, whether values went up or down.
C1_TotalIsLastValue ==
  /\ TheCaller.pc = "done" =>
       /\ sent[TheCaller.decodedKey] = TheCaller.intVal
       /\ MapGet(counterMap, LabelKey(TheCaller.decodedKey)) = TheCaller.intVal
  /\ TheCaller.pc = "idle" =>
       \A m \in DOMAIN lastSet :
         /\ sent[m] = lastSet[m]
         /\ MapGet(counterMap, LabelKey(m)) = lastSet[m]

\* A Set to a lower value than the one recorded has completed with its Add.
C1_Witness ==
  /\ TheCaller.pc = "done"
  /\ TheCaller.nAdd = 1
  /\ TheCaller.decodedKey \in DOMAIN lastSet
  /\ TheCaller.intVal < lastSet[TheCaller.decodedKey]
  /\ TheCaller.diff < 0

\* C2: with concurrent callers on one label key, once all calls have returned
\* the backend total of every label set equals the value counterMap holds for it.
C2_NoLostUpdate ==
  (\A c \in Callers : set[c].pc = "idle") =>
    \A m \in LabelSets : sent[m] = MapGet(counterMap, LabelKey(m))

\* C5: a completed Set whose value equals the one last recorded for its label
\* set (0 when never set) made no Add and no store; one whose value differs
\* made exactly one Add.
C5_NoOpWhenUnchanged ==
  TheCaller.pc = "done" =>
    LET previous == MapGet(lastSet, TheCaller.decodedKey)
    IN  /\ TheCaller.intVal = previous => TheCaller.nAdd = 0 /\ TheCaller.nStore = 0
        /\ TheCaller.intVal # previous => TheCaller.nAdd = 1

\* A Set repeating the non-zero value recorded for its label set has completed.
C5_Witness ==
  /\ TheCaller.pc = "done"
  /\ TheCaller.decodedKey \in DOMAIN lastSet
  /\ TheCaller.intVal = lastSet[TheCaller.decodedKey]
  /\ TheCaller.intVal # 0
  /\ sent[TheCaller.decodedKey] = TheCaller.intVal

\* C6: no step of a Set on one label set changes counterMap's entry or the
\* backend total of another label set, and the first Set on a label set ends
\* having emitted its own full value as the delta (nothing when the value is 0).
C6_IndependentBaselines ==
  [][/\ \A b \in LabelSets :
          (TheCaller.pc = "idle" \/ b # TheCaller.decodedKey) =>
            /\ MapGet(counterMap', LabelKey(b)) = MapGet(counterMap, LabelKey(b))
            /\ sent'[b] = sent[b]
     /\ (TheCaller'.pc = "done" /\ TheCaller'.decodedKey \notin DOMAIN lastSet') =>
          IF TheCaller'.intVal = 0
          THEN TheCaller'.nAdd = 0
          ELSE TheCaller'.nAdd = 1 /\ TheCaller'.diff = TheCaller'.intVal
    ]_vars

\* The first Set on a label set has emitted its delta while another label set
\* has a non-zero baseline.
C6_Witness ==
  /\ TheCaller.pc = "done"
  /\ TheCaller.nAdd = 1
  /\ TheCaller.decodedKey \notin DOMAIN lastSet
  /\ \E a \in DOMAIN lastSet : lastSet[a] # 0 /\ sent[a] = lastSet[a]

\* ----------------------------------------------- properties: Gauge Instrument

\* The pair a sampling callback passes to Observe, once it has read it.
Reported(s) == <<gs[s].value, gs[s].labels>>

\* The pair of a gauge no Set has written: *val = 0, *labels = nil.
InitialPair == <<0, <<>>>>

\* The pairs of the Set calls in progress.
CalledPairs ==
  {<<gw[w].intVal, gw[w].labels>> : w \in {x \in GaugeCallers : gw[x].pc # "idle"}}

\* The pair the latest write had left when callback s took the lock, and the
\* pairs written from then until it had read.
WrittenPairs(s) == gs[s].current

\* C3: every pair a sampling callback reports is the initial pair or the
\* (value, labels) of one single Set call, never a mix of two calls.
C3_NoTornPair ==
  \A s \in Samplers :
    gs[s].pc = "observe" => Reported(s) \in {InitialPair} \cup WrittenPairs(s) \cup CalledPairs

\* A callback has reported the pair of a Set while another Set, with another
\* value and other labels, was waiting for the lock.
C3_Witness ==
  \E s \in Samplers, w \in GaugeCallers :
    /\ gs[s].pc = "observe"
    /\ ~gs[s].quiet
    /\ Reported(s) = gCur
    /\ gs[s].labels # <<>>
    /\ gw[w].pc = "wait"
    /\ gw[w].intVal # gs[s].value
    /\ gw[w].labels # gs[s].labels

\* C4: the pair a callback reports was the gauge's pair at some moment while the
\* callback ran: the pair current when it took the read lock (never an older
\* one) or the pair of a Set that wrote between then and its reads.
C4_Linearizable ==
  \A s \in Samplers :
    gs[s].pc = "observe" => Reported(s) \in gs[s].current

\* A callback that began before a Set wrote has reported that Set's pair, which
\* differs from the pair current when the callback began.
C4_Witness ==
  \E s \in Samplers :
    /\ gs[s].pc = "observe"
    /\ gs[s].overlap
    /\ Reported(s) = gCur
    /\ gReplaced

\* C7: when no Set is in progress the gauge holds exactly the value and labels
\* of the Set that returned last, and a callback that ran with no Set in
\* progress reports exactly those.
C7_SingleSlot ==
  /\ (\A w \in GaugeCallers : gw[w].pc = "idle") =>
       /\ gaugeVal = gLast.intVal
       /\ AttrSet(gaugeLabels) = gLast.decodedKey
       /\ Len(gaugeLabels) = Cardinality(gLast.decodedKey)
  /\ \A s \in Samplers :
       (gs[s].pc = "observe" /\ gs[s].quiet) =>
         /\ gs[s].value = gLast.intVal
         /\ AttrSet(gs[s].labels) = gLast.decodedKey

\* After two Sets with different values and different label sets, a callback
\* that ran with no Set in progress has reported the second.
C7_Witness ==
  \E s \in Samplers :
    /\ gs[s].pc = "observe"
    /\ gs[s].quiet
    /\ \A w \in GaugeCallers : gw[w].pc = "idle"
    /\ Reported(s) = gCur
    /\ gReplaced

\* C8: as long as Set has never been called, every callback reports 0 with no
\* labels.
C8_InitialReport ==
  gCalls = 0 => \A s \in Samplers : gs[s].pc = "observe" => Reported(s) = <<0, <<>>>>

\* With no Set ever called, a callback has read the pair it reports.
C8_Witness ==
  /\ gCalls = 0
  /\ \E s \in Samplers : gs[s].pc = "observe"

\* ------------------------------------------- properties: Increment Instrument

\* Increment calls made with label map m that have not yet reached Add.
IncInFlight(m) == Cardinality({i \in IncCallers : inc[i].pc = "add" /\ inc[i].decodedKey = m})

\* C9: the backend total of every label combination is the number of Increment
\* calls made with it that have called Add: n once n calls have returned,
\* whether they ran one after another or at once, and untouched by calls with
\* other labels.
C9_IncrementCounts ==
  \A m \in LabelSets : incTotal[m] = incCalls[m] - IncInFlight(m)

\* Two Increments with one label set have returned and a third is running
\* beside a caller that is between calls; another label set has count 0.
C9_Witness ==
  /\ incTotal[OpPushStatusOk] = 2
  /\ incTotal[StatusOk] = 0
  /\ \E i \in IncCallers : inc[i].pc = "add" /\ inc[i].decodedKey = OpPushStatusOk

\* -------------------------------------------------------- properties: Provider

\* C10: a Provider constructed on a port that is already bound returns an
\* error, and construction never reports success when the listener failed to
\* bind.
C10_BoundPortIsError ==
  /\ (prov.pc = "returned" /\ prov.opts.Port \in busyPorts) => prov.result = "error"
  /\ prov.result = "ok" => serve.err # "bind"

\* The exposition endpoint is being served: Serve is accepting on an open listener.
Serving == serve.pc = "serving" /\ server.listener = "open"

\* C11: once the context passed at construction is cancelled, the listener
\* eventually is not serving and never serves again, whichever of the serving
\* goroutine and the shutdown goroutine runs first.
C11_CancelStopsServing == ctxDone ~> [](~Serving)

\* Cancellation has stopped a listener that was serving, and ListenAndServe
\* has returned ErrServerClosed.
C11_Witness ==
  /\ ctxDone
  /\ server.tracked
  /\ server.listener = "closed"
  /\ serve = [pc |-> "returned", err |-> "closed"]

\* C12: a Set call in which hashing failed does not end the process: the
\* failure is an outcome of that call, after which the process runs on.
C12_HashFailureIsReturned == ~(fatal /\ TheCaller.pc = "hashErr")

\* C13: when the exporter cannot be constructed, construction returns an error
\* and has done nothing else, then or later: the process-wide meter provider is
\* not installed, no server is set up, no listener is started and no shutdown
\* goroutine is registered.
C13_ExporterFailureHasNoEffect ==
  prov.result = "error" =>
    /\ prov.pc = "returned"
    /\ ~prov.global
    /\ server.Addr = 0 /\ server.route = ""
    /\ server.listener = "none" /\ ~server.tracked
    /\ serve.pc = "none"
    /\ shutdown.pc = "none"
    /\ server.closes = 0 /\ ~server.inShutdown

\* Construction has failed on the exporter and the context has been cancelled
\* since.
C13_Witness ==
  /\ prov.result = "error"
  /\ ctxDone

\* C14: the counterMap key of a Set call does not depend on the order in which
\* the label map's entries are visited: every order yields the key this call
\* used, so a call through a map with the same pairs as an earlier one reads
\* the value that one recorded.
C14_HashIgnoresOrder ==
  /\ TheCaller.pc \notin {"idle", "hashErr"} =>
       \A keys \in Iterations(TheCaller.decodedKey) : Hash(keys) = TheCaller.keyHash
  /\ (TheCaller.pc \in {"store", "storing", "add", "done"}
        /\ TheCaller.decodedKey \in DOMAIN lastSet) =>
       TheCaller.oldVal = lastSet[TheCaller.decodedKey]

\* A Set on a two-entry label map, visited in the other order than the one
\* LabelKey takes, has read the non-zero value an earlier Set recorded.
C14_Witness ==
  /\ TheCaller.pc = "store"
  /\ TheCaller.decodedKey = OpPushStatusOk
  /\ TheCaller.keys # (CHOOSE keys \in Iterations(OpPushStatusOk) : TRUE)
  /\ OpPushStatusOk \in DOMAIN lastSet
  /\ TheCaller.oldVal = lastSet[OpPushStatusOk]
  /\ TheCaller.oldVal # 0

\* C15: a port of 0 becomes 9091 and an empty metrics path becomes "/metrics";
\* a non-zero port and a non-empty path stay as supplied; the server's address
\* and the registered route are the resulting values.
C15_Defaults ==
  /\ prov.pc # "idle" =>
       /\ prov.opts.Port = (IF prov.given.Port = 0 THEN 9091 ELSE prov.given.Port)
       /\ prov.opts.MetricsPath =
            (IF prov.given.MetricsPath = "" THEN "/metrics" ELSE prov.given.MetricsPath)
  /\ prov.global =>
       /\ server.Addr = prov.opts.Port
       /\ server.route = prov.opts.MetricsPath

\* A Provider given port 0 and the path "/stats" has set up its server on
\* port 9091 with the route "/stats".
C15_Witness ==
  /\ prov.global
  /\ prov.given = [Port |-> 0, MetricsPath |-> "/stats"]
  /\ server.Addr = 9091
  /\ server.route = "/stats"

\* C16: in a Set call that changes the value, counterMap[keyHash] already holds
\* the new value when Add is issued; the delta is the new value minus the value
\* recorded before (in int64) and is never 0; Add never precedes the store; and
\* a Set reads the value the same caller's earlier Set on that key recorded.
C16_StoreBeforeAdd ==
  LET previous == MapGet(lastSet, TheCaller.decodedKey)
  IN  /\ TheCaller.pc = "add" =>
           /\ TheCaller.nStore = 1
           /\ MapGet(counterMap, TheCaller.keyHash) = TheCaller.intVal
           /\ TheCaller.intVal # previous
           /\ TheCaller.diff = Wrap(TheCaller.intVal - previous)
           /\ TheCaller.diff # 0
      /\ TheCaller.nAdd <= TheCaller.nStore
      /\ TheCaller.pc \in {"store", "storing", "add", "done"} => TheCaller.oldVal = previous

\* A Set changing a recorded non-zero value is about to issue Add, the new
\* value being stored already.
C16_Witness ==
  /\ TheCaller.pc = "add"
  /\ TheCaller.decodedKey \in DOMAIN lastSet
  /\ lastSet[TheCaller.decodedKey] # 0
  /\ TheCaller.nAdd = 0
  /\ MapGet(counterMap, TheCaller.keyHash) = TheCaller.intVal

\* C17: server.Close is invoked at most once and never while the context is
\* uncancelled, nor is the listener closed before cancellation; this also when
\* the listener never came to serve.
C17_CloseOnceAfterCancel ==
  /\ server.closes <= 1
  /\ (server.closes > 0 \/ shutdown.pc \in {"close", "done"}) => ctxDone
  /\ (server.inShutdown \/ server.listener = "closed") => ctxDone
  /\ shutdown.pc = "done" <=> server.closes = 1

\* Close has been invoked, once, after cancellation, on a server whose
\* listener had failed to bind.
C17_Witness ==
  /\ server.closes = 1
  /\ ctxDone
  /\ serve = [pc |-> "returned", err |-> "bind"]
  /\ server.listener = "none"

\* C18: a Set that is not inside its critical section does not hold the write
\* lock, and a callback that has not yet locked, is calling Observe or has
\* returned does not hold the read lock (so Observe runs after RUnlock); and
\* every Set and every callback that has started eventually returns.
C18_LocksReleasedAndProgress ==
  /\ [](/\ \A w \in GaugeCallers : gw[w].pc \in {"idle", "lock"} => lock.writer # w
        /\ \A s \in Samplers : gs[s].pc \in {"idle", "rlock", "observe"} => s \notin lock.readers
        /\ lock.writer \in GaugeCallers => gw[lock.writer].pc \in {"wait", "labels", "val", "unlock"}
        /\ \A s \in lock.readers : gs[s].pc \in {"val", "labels", "runlock"})
  /\ \A w \in GaugeCallers : (gw[w].pc # "idle") ~> (gw[w].pc = "idle")
  /\ \A s \in Samplers : (gs[s].pc # "idle") ~> (gs[s].pc = "idle")

\* A callback is calling Observe, its read lock released, while one Set holds
\* the write lock and is storing and another Set waits for the lock.
C18_Witness ==
  \E s \in Samplers, w, v \in GaugeCallers :
    /\ gs[s].pc = "observe"
    /\ lock.readers = {}
    /\ lock.writer = w
    /\ gw[w].pc = "val"
    /\ gw[v].pc = "lock"

====
